---- MODULE Spec2Model ----
(***************************************************************************)
(* Prompt Lifecycle Manager (prompt_library: JSON file on disk).           *)
(*                                                                         *)
(* The library is one JSON document {"prompts": {key: entry}, "metadata"}. *)
(* Every public operation loads the whole document, mutates one entry in   *)
(* memory and writes the whole document back with open(path, "w").         *)
(*                                                                         *)
(* Strings that the code inspects character by character (domain tags)     *)
(* are sequences of one-character strings; strings the code only stores    *)
(* and compares (prompt text, notes, regime labels) are TLA+ strings.      *)
(* Optional values: None is <<>>, a present value x is <<x>>.              *)
(* Floats (confidence, avg_confidence) are binary64 values with the        *)
(* rounding of every arithmetic step.                                      *)
(*                                                                         *)
(* The dashboard's React hook useVerticalData (frontend) is modelled       *)
(* beside the library in the variable hook; the library's actions leave    *)
(* it alone and the hook's actions leave the library alone.                *)
(***************************************************************************)
EXTENDS Integers, Sequences, FiniteSets, TLC

VARIABLES
    file,       \* the library file on disk: [state, doc, by]
    clock,      \* datetime.now(), read once per operation
    pc,         \* per caller: position inside the running operation
    op,         \* per caller: the call being (or last) executed, with its arguments
    pending,    \* per caller: the document the caller is about to / did write
    ret,        \* per caller: what the last finished call returned or raised
    persisted,  \* history: the last complete document the file held (None at start)
    completed,  \* history: calls that returned normally after saving
    raced,      \* history: some write ended in a file another caller had touched
    hook        \* the dashboard's useVerticalData hook: React state, fetchRef
                \* and the fetchVertical invocations (see HookInit)

vars == <<file, clock, pc, op, pending, ret, persisted, completed, raced, hook>>

None == <<>>
Some(x) == <<x>>
IsSome(o) == o # <<>>
The(o) == o[1]

----------------------------------------------------------------------------
(* Characters and strings: str.strip, str.lower, str.replace, sorted, join *)

Whitespace == {" ", "\t", "\n"}

\* LATIN SMALL LETTER DOTLESS I, a letter outside ASCII, written by its code
\* point: str.upper turns it into "I", str.lower leaves it alone
DotlessI == "U+0131"

\* ord(c)
Ord(c) ==
    CASE c = "\t" -> 9
      [] c = "\n" -> 10
      [] c = " " -> 32
      [] c = "A" -> 65
      [] c = "B" -> 66
      [] c = "I" -> 73
      [] c = "_" -> 95
      [] c = "a" -> 97
      [] c = "b" -> 98
      [] c = "i" -> 105
      [] c = "|" -> 124
      [] c = DotlessI -> 305

\* c.lower()
LowerChar(c) ==
    CASE c = "A" -> "a"
      [] c = "B" -> "b"
      [] c = "I" -> "i"
      [] OTHER -> c

RECURSIVE LStrip(_)
LStrip(s) ==
    IF s # <<>> /\ Head(s) \in Whitespace THEN LStrip(Tail(s)) ELSE s

RECURSIVE RStrip(_)
RStrip(s) ==
    IF s # <<>> /\ s[Len(s)] \in Whitespace
    THEN RStrip(SubSeq(s, 1, Len(s) - 1))
    ELSE s

Strip(s) == RStrip(LStrip(s))

Lower(s) == [i \in 1..Len(s) |-> LowerChar(s[i])]

ReplaceSpaceByUnderscore(s) ==
    [i \in 1..Len(s) |-> IF s[i] = " " THEN "_" ELSE s[i]]

\* d.strip().lower().replace(" ", "_")
NormalizeTag(d) == ReplaceSpaceByUnderscore(Lower(Strip(d)))

\* Python's str "<": lexicographic by code point, a proper prefix is smaller.
RECURSIVE StrLess(_, _)
StrLess(a, b) ==
    IF b = <<>> THEN FALSE
    ELSE IF a = <<>> THEN TRUE
    ELSE IF Ord(Head(a)) # Ord(Head(b)) THEN Ord(Head(a)) < Ord(Head(b))
    ELSE StrLess(Tail(a), Tail(b))

RECURSIVE InsertSorted(_, _)
InsertSorted(x, s) ==
    IF s = <<>> THEN <<x>>
    ELSE IF StrLess(x, Head(s)) THEN <<x>> \o s
    ELSE <<Head(s)>> \o InsertSorted(x, Tail(s))

\* sorted(list of str); the sort is stable and equal strings are identical.
RECURSIVE Sorted(_)
Sorted(s) ==
    IF s = <<>> THEN <<>> ELSE InsertSorted(s[Len(s)], Sorted(SubSeq(s, 1, Len(s) - 1)))

\* "|".join(parts)
RECURSIVE Join(_)
Join(parts) ==
    IF parts = <<>> THEN <<>>
    ELSE IF Len(parts) = 1 THEN parts[1]
    ELSE parts[1] \o <<"|">> \o Join(Tail(parts))

\* hashlib.md5(s).hexdigest()[:12]: the digest is not computed; it is a value
\* determined by the hashed string (distinct strings are taken to differ).
Md5Hex12(s) == <<"md5", s>>

NormalizedTags(domains) ==
    Sorted([i \in 1..Len(domains) |-> NormalizeTag(domains[i])])

_domain_key(domains) == Md5Hex12(Join(NormalizedTags(domains)))

----------------------------------------------------------------------------
(* Python floats (IEEE 754 binary64, round to nearest, ties to even).      *)
(* A float x >= 0 is held as the natural number x * 2^FracBits, written in *)
(* base LimbBase with the least significant limb first and no leading zero *)
(* limb (zero is <<>>).  The representation is exact for 0 and for floats  *)
(* in [2^-7, 2^6), the magnitudes log_run handles: confidences of 0.1 and  *)
(* more, their running average, and the average times a run count below    *)
(* 64.                                                                     *)

\* bits of a binary64 significand
MantissaBits == 53
FracBits == 60
LimbBits == 16
LimbBase == 2^LimbBits

\* Op at the value of x.  An operator argument is evaluated wherever the
\* body uses it; a bound variable is evaluated once.
Once(x, Op(_)) == CHOOSE y \in {Op(v) : v \in {x}} : TRUE

RECURSIVE BigAdd(_, _, _)
BigAdd(a, b, carry) ==
    Once(<<a, b, carry>>, LAMBDA t :
        IF t[1] = <<>> /\ t[2] = <<>> THEN (IF t[3] = 0 THEN <<>> ELSE <<t[3]>>)
        ELSE LET s == (IF t[1] = <<>> THEN 0 ELSE Head(t[1]))
                      + (IF t[2] = <<>> THEN 0 ELSE Head(t[2])) + t[3]
             IN  <<s % LimbBase>>
                    \o BigAdd(IF t[1] = <<>> THEN <<>> ELSE Tail(t[1]),
                              IF t[2] = <<>> THEN <<>> ELSE Tail(t[2]),
                              s \div LimbBase))

RECURSIVE BigTimesCarry(_, _, _)
BigTimesCarry(a, k, carry) ==
    Once(<<a, carry>>, LAMBDA t :
        IF t[1] = <<>> THEN (IF t[2] = 0 THEN <<>> ELSE <<t[2]>>)
        ELSE LET s == Head(t[1]) * k + t[2]
             IN  <<s % LimbBase>> \o BigTimesCarry(Tail(t[1]), k, s \div LimbBase))

\* a * k for 0 <= k < 2^14
BigTimes(a, k) == IF k = 0 THEN <<>> ELSE BigTimesCarry(a, k, 0)

\* quotient q and remainder r of a by n, for 0 < n <= 2^14
RECURSIVE BigDivMod(_, _)
BigDivMod(a, n) ==
    Once(a, LAMBDA v :
        IF v = <<>> THEN [q |-> <<>>, r |-> 0]
        ELSE Once(BigDivMod(Tail(v), n), LAMBDA hi :
                LET cur == hi.r * LimbBase + Head(v)
                IN  [q |-> IF cur \div n = 0 /\ hi.q = <<>> THEN <<>>
                           ELSE <<cur \div n>> \o hi.q,
                     r |-> cur % n]))

RECURSIVE BigLess(_, _)
BigLess(a, b) ==
    Once(<<a, b>>, LAMBDA t :
        IF Len(t[1]) # Len(t[2]) THEN Len(t[1]) < Len(t[2])
        ELSE IF t[1] = <<>> THEN FALSE
        ELSE IF t[1][Len(t[1])] # t[2][Len(t[2])]
        THEN t[1][Len(t[1])] < t[2][Len(t[2])]
        ELSE BigLess(SubSeq(t[1], 1, Len(t[1]) - 1),
                     SubSeq(t[2], 1, Len(t[2]) - 1)))

RECURSIVE Bits(_)
Bits(x) == IF x = 0 THEN 0 ELSE 1 + Bits(x \div 2)

BitLength(a) == IF a = <<>> THEN 0 ELSE LimbBits * (Len(a) - 1) + Bits(a[Len(a)])

\* round to nearest, ties to even: cut.q holds the bits kept, cut.r the bits
\* dropped, and inexact says that the exact value has further bits
RoundUp(cut, half, inexact) ==
    \/ cut.r > half
    \/ cut.r = half /\ (inexact \/ (cut.q # <<>> /\ Head(cut.q) % 2 = 1))

\* the float nearest to an exact value x with a <= x < a + 1 (in units of
\* 2^-FracBits), where inexact says that x # a
RoundToFloat(a, inexact) ==
    Once(a, LAMBDA v :
        Once(BitLength(v) - MantissaBits, LAMBDA drop :
            IF drop <= 0 THEN v
            ELSE Once(BigDivMod(v, 2^drop), LAMBDA cut :
                    BigTimes(IF RoundUp(cut, 2^(drop - 1), inexact)
                             THEN BigAdd(cut.q, <<>>, 1) ELSE cut.q,
                             2^drop))))

\* 0.0
FloatZero == <<>>

\* 1.0
FloatOne ==
    [i \in 1..(FracBits \div LimbBits + 1) |->
        IF i = FracBits \div LimbBits + 1 THEN 2^(FracBits % LimbBits) ELSE 0]

\* the float a decimal literal num/den denotes
FloatLiteral(num, den) ==
    Once(BigDivMod(BigTimes(FloatOne, num), den), LAMBDA d :
        RoundToFloat(d.q, d.r # 0))

\* float * int, float + float, float / int, float > float
FloatTimesInt(x, k) == RoundToFloat(BigTimes(x, k), FALSE)
FloatPlus(x, y) == RoundToFloat(BigAdd(x, y, 0), FALSE)
FloatOverInt(x, n) ==
    Once(BigDivMod(x, n), LAMBDA d : RoundToFloat(d.q, d.r # 0))
FloatGreater(x, y) == BigLess(y, x)

----------------------------------------------------------------------------
(* The document and its entries                                            *)

\* history[-10:] keeps this many snapshots
HistoryCap == 10

\* auto-evolve thresholds of log_run: runs >= 20 and avg_confidence > 0.6
AutoEvolveRuns == 20
AutoEvolveConfidence == FloatLiteral(6, 10)

\* variant: one snapshot fewer is kept
LastN_OneLess(s, n) ==
    IF Len(s) <= n - 1 THEN s ELSE SubSeq(s, Len(s) - n + 2, Len(s))

\* variant: the first n are kept, the newest dropped
LastN_Oldest(s, n) == IF Len(s) <= n THEN s ELSE SubSeq(s, 1, n)

\* s[-n:]
LastN(s, n) == IF Len(s) <= n THEN s ELSE SubSeq(s, Len(s) - n + 1, Len(s))

\* dict: a function whose domain is the set of present keys
EmptyDict == <<>>
Has(d, k) == k \in DOMAIN d
\* variant: the assignment drops the other keys
Put_Alone(d, k, v) == [x \in {k} |-> v]

Put(d, k, v) == [x \in (DOMAIN d) \cup {k} |-> IF x = k THEN v ELSE d[x]]
\* variant: del leaves the key in place
Del_Kept(d, k) == d
Del(d, k) == [x \in (DOMAIN d) \ {k} |-> d[x]]

\* what the calls return or raise
RetNone ==
    [kind |-> "none", entry |-> None, error |-> "", flag |-> FALSE,
     text |-> None, list |-> <<>>]
RetEntry(e) == [RetNone EXCEPT !.kind = "entry", !.entry = Some(e)]
RetBool(b) == [RetNone EXCEPT !.kind = "bool", !.flag = b]
RetError(e) == [RetNone EXCEPT !.kind = "error", !.error = e]
RetText(t) == [RetNone EXCEPT !.kind = "text", !.text = t]
RetList(l) == [RetNone EXCEPT !.kind = "list", !.list = l]
Running == [RetNone EXCEPT !.kind = "running"]

\* the result of the in-memory part of a call: the document to write (when
\* the call reaches _save_library) and the value returned afterwards
Outcome(lib, saved, r) == [lib |-> lib, saved |-> saved, ret |-> r]

\* _load_library when the file does not exist
FreshLibrary(now) == [prompts |-> EmptyDict, metadata |-> [created |-> now]]

\* the snapshot the mutating calls append to history
Snapshot(entry, now) ==
    [version |-> entry.version,
     system_prompt |-> entry.system_prompt,
     status |-> entry.status,
     saved_at |-> now]

\* variant: a new entry counts its creation as a run
NewPerformance_OneRun ==
    [runs |-> 1,
     avg_confidence |-> FloatZero,
     regime_changes |-> 0,
     conflicts_detected |-> 0,
     last_run |-> None,
     last_regime |-> None]

\* the performance dict of a new entry; it has no "last_regime" key
NewPerformance ==
    [runs |-> 0,
     avg_confidence |-> FloatZero,
     regime_changes |-> 0,
     conflicts_detected |-> 0,
     last_run |-> None,
     last_regime |-> None]

----------------------------------------------------------------------------
(* The in-memory part of each public call, from the loaded document `lib`  *)
(* to the document it hands to _save_library and the value it returns.     *)

\* variant: the loaded document is written back before the error is raised
RaiseNotFound_AfterSaving(lib) == Outcome(lib, TRUE, RetError("NotFound"))

\* raise ValueError(f"No prompt found for domains: {domains}"): nothing is saved
RaiseNotFound(lib) == Outcome(lib, FALSE, RetError("NotFound"))

\* raise ValueError(f"Version {to_version} not found in history"): nothing is saved
RaiseVersionNotFound(lib) == Outcome(lib, FALSE, RetError("VersionNotFound"))

\* variant: log_run raises like curate_prompt and rollback do
ReturnSilently_Raising(lib) == Outcome(lib, FALSE, RetError("NotFound"))

\* log_run: "if not entry: return"
ReturnSilently(lib) == Outcome(lib, FALSE, RetNone)

\* lib["prompts"].get(key)
get_prompt(lib, domains) ==
    LET key == _domain_key(domains) IN
    IF Has(lib.prompts, key) THEN RetEntry(lib.prompts[key]) ELSE RetNone

\* variant: a draft is not served
get_best_prompt_NoDraft(lib, domains) ==
    LET key == _domain_key(domains) IN
    IF ~Has(lib.prompts, key) THEN RetText(None)
    ELSE IF lib.prompts[key].status \in {"curated", "evolving"}
         THEN RetText(Some(lib.prompts[key].system_prompt))
         ELSE RetText(None)

\* the text of the entry, or None without entry (or with an unknown status)
get_best_prompt(lib, domains) ==
    LET key == _domain_key(domains) IN
    IF ~Has(lib.prompts, key) THEN RetText(None)
    ELSE IF lib.prompts[key].status \in {"curated", "evolving", "draft"}
         THEN RetText(Some(lib.prompts[key].system_prompt))
         ELSE RetText(None)

\* sorted(prompts, key=updated_at, reverse=True).  Entries with equal
\* updated_at keep their dict order in the code; every call reads a
\* different clock value here, so no two entries share an updated_at.
\* variant: oldest update first
RECURSIVE SortedByUpdatedAsc(_)
SortedByUpdatedAsc(entries) ==
    IF entries = {} THEN <<>>
    ELSE LET first == CHOOSE e \in entries :
                         \A f \in entries : e.updated_at <= f.updated_at
         IN  <<first>> \o SortedByUpdatedAsc(entries \ {first})

RECURSIVE SortedByUpdatedDesc(_)
SortedByUpdatedDesc(entries) ==
    IF entries = {} THEN <<>>
    ELSE LET first == CHOOSE e \in entries :
                         \A f \in entries : e.updated_at >= f.updated_at
         IN  <<first>> \o SortedByUpdatedDesc(entries \ {first})

\* list_prompts: "if status:" filters (None and "" do not)
list_prompts(lib, status) ==
    LET all == {lib.prompts[k] : k \in DOMAIN lib.prompts}
        kept == IF IsSome(status) /\ The(status) # ""
                THEN {e \in all : e.status = The(status)}
                ELSE all
    IN  RetList(SortedByUpdatedDesc(kept))

\* variant: the curated guard is missing
IsProtected_Never(existing) == FALSE

\* save_draft: "Never overwrite a curated prompt automatically"
IsProtected(existing) == existing.status = "curated"

\* variant: the overwritten version is not archived
DraftHistory_NoArchive(existing, now) == existing.history

\* save_draft: archive the current version, keep the last 10
DraftHistory(existing, now) ==
    LastN(Append(existing.history, Snapshot(existing, now)), HistoryCap)

\* variant: an overwritten draft keeps its version number
DraftVersion_Kept(exists, existing) == IF exists THEN existing.version ELSE 1

\* save_draft: version = existing["version"] + 1 if existing else 1
DraftVersion(exists, existing) == IF exists THEN existing.version + 1 ELSE 1

\* variant: the intent of the first save_draft is kept
DraftIntent_Kept(exists, existing, user_intent) ==
    IF exists THEN existing.user_intent ELSE user_intent

\* save_draft: "user_intent": user_intent
DraftIntent(exists, existing, user_intent) == user_intent

\* variant: every save_draft stamps created_at anew
DraftCreatedAt_Now(exists, existing, now) == now

\* save_draft: "created_at": existing["created_at"] if existing else now
DraftCreatedAt(exists, existing, now) ==
    IF exists THEN existing.created_at ELSE now

save_draft(lib, domains, system_prompt, user_intent, generated_by, now) ==
    LET key == _domain_key(domains)
        exists == Has(lib.prompts, key)
        existing == lib.prompts[key]
        entry ==
            [key |-> key,
             status |-> "draft",
             system_prompt |-> system_prompt,
             version |-> DraftVersion(exists, existing),
             domains |-> Sorted(domains),
             user_intent |-> DraftIntent(exists, existing, user_intent),
             generated_by |-> generated_by,
             created_at |-> DraftCreatedAt(exists, existing, now),
             updated_at |-> now,
             curated_at |-> None,
             curated_by |-> None,
             performance |-> IF exists THEN existing.performance ELSE NewPerformance,
             human_notes |-> IF exists THEN existing.human_notes ELSE "",
             history |-> IF exists THEN DraftHistory(existing, now) ELSE <<>>]
    IN  IF exists /\ IsProtected(existing)
        THEN Outcome(lib, FALSE, RetEntry(existing))
        ELSE Outcome([lib EXCEPT !.prompts = Put(lib.prompts, key, entry)],
                     TRUE, RetEntry(entry))

\* curate_prompt: archive current before curating, keep the last 10
CurateHistory(entry, now) ==
    LastN(Append(entry.history, Snapshot(entry, now)), HistoryCap)

\* curate_prompt: "if edited_prompt:" (None and "" leave the text alone)
CurateText(entry, edited_prompt) ==
    IF IsSome(edited_prompt) /\ The(edited_prompt) # ""
    THEN The(edited_prompt)
    ELSE entry.system_prompt

curate_prompt(lib, domains, edited_prompt, curator, notes, now) ==
    LET key == _domain_key(domains)
        entry == lib.prompts[key]
        curated ==
            [entry EXCEPT
                !.history = CurateHistory(entry, now),
                !.system_prompt = CurateText(entry, edited_prompt),
                !.status = "curated",
                !.version = entry.version + 1,
                !.curated_at = Some(now),
                !.curated_by = Some(curator),
                !.updated_at = now,
                !.human_notes = IF notes # "" THEN notes ELSE entry.human_notes]
    IN  IF ~Has(lib.prompts, key)
        THEN RaiseNotFound(lib)
        ELSE Outcome([lib EXCEPT !.prompts = Put(lib.prompts, key, curated)],
                     TRUE, RetEntry(curated))

\* variant: the new confidence weighs as much as all earlier runs together
RunningAverage_Unweighted(avg, n, confidence) ==
    FloatOverInt(FloatPlus(avg, confidence), 2)

\* log_run: running average ((avg * (n - 1)) + confidence) / n
RunningAverage(avg, n, confidence) ==
    FloatOverInt(FloatPlus(FloatTimesInt(avg, n - 1), confidence), n)

\* variant: promotion from the 19th run on
AutoEvolves_Early(status, runs, avg) ==
    status = "draft" /\ runs >= AutoEvolveRuns - 1 /\ FloatGreater(avg, AutoEvolveConfidence)

\* variant: promotion whatever the status
AutoEvolves_AnyStatus(status, runs, avg) ==
    runs >= AutoEvolveRuns /\ FloatGreater(avg, AutoEvolveConfidence)

\* variant: promotion only after more than 20 runs
AutoEvolves_Late(status, runs, avg) ==
    status = "draft" /\ runs > AutoEvolveRuns /\ FloatGreater(avg, AutoEvolveConfidence)

\* log_run: auto-evolve
AutoEvolves(status, runs, avg) ==
    status = "draft" /\ runs >= AutoEvolveRuns /\ FloatGreater(avg, AutoEvolveConfidence)

log_run(lib, domains, confidence, regime, conflicts, now) ==
    LET key == _domain_key(domains)
        entry == lib.prompts[key]
        old == entry.performance
        n == old.runs + 1
        avg == RunningAverage(old.avg_confidence, n, confidence)
        changed == IsSome(old.last_regime) /\ The(old.last_regime) # ""
                   /\ The(old.last_regime) # regime
        perf ==
            [runs |-> n,
             avg_confidence |-> avg,
             regime_changes |-> old.regime_changes + (IF changed THEN 1 ELSE 0),
             conflicts_detected |->
                 old.conflicts_detected + (IF conflicts # <<>> THEN 1 ELSE 0),
             last_run |-> Some(now),
             last_regime |-> Some(regime)]
        logged ==
            [entry EXCEPT
                !.status = IF AutoEvolves(entry.status, n, avg)
                           THEN "evolving" ELSE entry.status,
                !.performance = perf]
    IN  IF ~Has(lib.prompts, key)
        THEN ReturnSilently(lib)
        ELSE Outcome([lib EXCEPT !.prompts = Put(lib.prompts, key, logged)],
                     TRUE, RetNone)

\* variant: an unknown version falls back to the oldest snapshot
FindVersion_OrOldest(history, to_version) ==
    LET hits == {i \in 1..Len(history) : history[i].version = to_version} IN
    IF hits # {} THEN Some(history[CHOOSE i \in hits : \A j \in hits : i <= j])
    ELSE IF history = <<>> THEN None
    ELSE Some(history[1])

\* rollback: the first snapshot of history with h["version"] == to_version
RECURSIVE FindVersion(_, _)
FindVersion(history, to_version) ==
    IF history = <<>> THEN None
    ELSE IF Head(history).version = to_version THEN Some(Head(history))
    ELSE FindVersion(Tail(history), to_version)

\* rollback: archive current (no [-10:] here)
RollbackHistory(entry, now) == Append(entry.history, Snapshot(entry, now))

\* variant: the version is counted on from the restored snapshot
RollbackVersion_FromTarget(entry, target) == target.version + 1

\* variant: the restored snapshot's version number is reused
RollbackVersion_Reused(entry, target) == target.version

\* rollback: entry["version"] += 1
RollbackVersion(entry, target) == entry.version + 1

\* variant: a rollback always leaves a draft
RollbackStatus_Draft(target) == "draft"

\* variant: a rollback marks the entry as a fallback
RollbackStatus_Fallback(target) == "fallback"

\* rollback: entry["status"] = target.get("status", "draft")
RollbackStatus(target) ==
    IF "status" \in DOMAIN target THEN target.status ELSE "draft"

rollback(lib, domains, to_version, now) ==
    LET key == _domain_key(domains)
        entry == lib.prompts[key]
        target == FindVersion(entry.history, to_version)
        rolled ==
            [entry EXCEPT
                !.history = RollbackHistory(entry, now),
                !.system_prompt = The(target).system_prompt,
                !.version = RollbackVersion(entry, The(target)),
                !.status = RollbackStatus(The(target)),
                !.updated_at = now]
    IN  IF ~Has(lib.prompts, key)
        THEN RaiseNotFound(lib)
        ELSE IF ~IsSome(target)
        THEN RaiseVersionNotFound(lib)
        ELSE Outcome([lib EXCEPT !.prompts = Put(lib.prompts, key, rolled)],
                     TRUE, RetEntry(rolled))

delete_prompt(lib, domains) ==
    LET key == _domain_key(domains) IN
    IF Has(lib.prompts, key)
    THEN Outcome([lib EXCEPT !.prompts = Del(lib.prompts, key)], TRUE, RetBool(TRUE))
    ELSE Outcome(lib, FALSE, RetBool(FALSE))

----------------------------------------------------------------------------
(* Calls and their arguments                                               *)

NoCall ==
    [kind |-> "none", domains |-> <<>>, text |-> "", edited |-> None,
     intent |-> "", by |-> "", notes |-> "", to_version |-> 0,
     confidence |-> FloatZero, regime |-> "", conflicts |-> <<>>,
     status |-> None, at |-> 0]

CallSaveDraft(domains, system_prompt, user_intent, generated_by) ==
    [NoCall EXCEPT !.kind = "save_draft", !.domains = domains,
                   !.text = system_prompt, !.intent = user_intent,
                   !.by = generated_by]

CallCurate(domains, edited_prompt, curator, notes) ==
    [NoCall EXCEPT !.kind = "curate_prompt", !.domains = domains,
                   !.edited = edited_prompt, !.by = curator, !.notes = notes]

CallLogRun(domains, confidence, regime, conflicts) ==
    [NoCall EXCEPT !.kind = "log_run", !.domains = domains,
                   !.confidence = confidence, !.regime = regime,
                   !.conflicts = conflicts]

CallRollback(domains, to_version) ==
    [NoCall EXCEPT !.kind = "rollback", !.domains = domains,
                   !.to_version = to_version]

CallDelete(domains) ==
    [NoCall EXCEPT !.kind = "delete_prompt", !.domains = domains]

CallGetPrompt(domains) ==
    [NoCall EXCEPT !.kind = "get_prompt", !.domains = domains]

CallGetBestPrompt(domains) ==
    [NoCall EXCEPT !.kind = "get_best_prompt", !.domains = domains]

CallListPrompts(status) ==
    [NoCall EXCEPT !.kind = "list_prompts", !.status = status]

\* the body of call c between _load_library and _save_library
Apply(c, lib, now) ==
    CASE c.kind = "save_draft" ->
            save_draft(lib, c.domains, c.text, c.intent, c.by, now)
      [] c.kind = "curate_prompt" ->
            curate_prompt(lib, c.domains, c.edited, c.by, c.notes, now)
      [] c.kind = "log_run" ->
            log_run(lib, c.domains, c.confidence, c.regime, c.conflicts, now)
      [] c.kind = "rollback" ->
            rollback(lib, c.domains, c.to_version, now)
      [] c.kind = "delete_prompt" ->
            delete_prompt(lib, c.domains)
      [] c.kind = "get_prompt" ->
            Outcome(lib, FALSE, get_prompt(lib, c.domains))
      [] c.kind = "get_best_prompt" ->
            Outcome(lib, FALSE, get_best_prompt(lib, c.domains))
      [] c.kind = "list_prompts" ->
            Outcome(lib, FALSE, list_prompts(lib, c.status))

----------------------------------------------------------------------------
(* The file                                                                *)

\* state: "absent"   the path does not exist
\*        "empty"    truncated by open(path, "w"), nothing flushed yet
\*        "partial"  a prefix of a document has been flushed
\*        "garbled"  bytes of two writers' documents
\*        "complete" holds the document doc
\* by: the caller whose open/write touched the file last
FileAbsent == [state |-> "absent", doc |-> None, by |-> ""]
FileOf(state, p) == [state |-> state, doc |-> None, by |-> p]
FileComplete(lib, p) == [state |-> "complete", doc |-> Some(lib), by |-> p]

\* json.load succeeds only on a complete document
Readable(f) == f.state \in {"absent", "complete"}

\* _load_library: the document, or the bootstrap document when no file exists
_load_library(f, now) ==
    IF f.state = "absent" THEN FreshLibrary(now) ELSE The(f.doc)

----------------------------------------------------------------------------
(* Bounds and inputs                                                       *)

\* calls issued in one sequential behaviour (each reads the clock once)
MaxClock == 4

\* calls issued in one concurrent behaviour
MaxCalls == 3

Procs == {"p1", "p2"}

\* domain lists: ["a"], ["b"], and ["A"], which has the key of ["a"]
DomA == << <<"a">> >>
DomB == << <<"b">> >>
DomUpperA == << <<"A">> >>
\* ["a", "b"], ["B", "A"], and the one-letter lists of dotless i, "I" and "i"
DomAB == << <<"a">>, <<"b">> >>
DomUpperBA == << <<"B">>, <<"A">> >>
DomDotlessI == << <<DotlessI>> >>
DomUpperI == << <<"I">> >>
DomI == << <<"i">> >>
\* ["a b"], ["a  b"], ["a\tb"] and [" a b\t"]: one tag, written with
\* different whitespace
DomASpaceB == << <<"a", " ", "b">> >>
DomASpacesB == << <<"a", " ", " ", "b">> >>
DomATabB == << <<"a", "\t", "b">> >>
DomPaddedASpaceB == << <<" ", "a", " ", "b", "\t">> >>
\* ["a|b"]: one tag that holds the separator of the joined string
DomAPipeB == << <<"a", "|", "b">> >>

Texts == {"v1", "v2"}
Confidence09 == FloatLiteral(9, 10)
Confidence06 == FloatLiteral(6, 10)
Confidence03 == FloatLiteral(3, 10)

----------------------------------------------------------------------------
(* The hook useVerticalData(verticalId) of the dashboard.                  *)
(*   fetchRef: the useRef counter of fetchVertical invocations             *)
(*   verticalId: the prop the current fetchVertical callback closes over   *)
(*   config, data, analysis, loading, error: the five useState values      *)
(*   calls: the invocations of fetchVertical, by fetchId, each with the    *)
(*          await it is suspended at (pc) and the verticalId it fetches    *)
(* A fetched value is held as the record of the invocation that set it.    *)

\* invocations of fetchVertical in one behaviour
MaxFetches == 3

Verticals == {"housing", "energy"}

\* the state after the first render: useState(null) three times,
\* useState(true), useState(null), useRef(0)
HookInit ==
    [fetchRef |-> 0,
     verticalId |-> "housing",
     config |-> None,
     data |-> None,
     analysis |-> None,
     loading |-> TRUE,
     error |-> None,
     calls |-> <<>>]

----------------------------------------------------------------------------
(* Initial state: no file, every caller idle                               *)

Init ==
    /\ file = FileAbsent
    /\ clock = 0
    /\ pc = [p \in Procs |-> "idle"]
    /\ op = [p \in Procs |-> NoCall]
    /\ pending = [p \in Procs |-> None]
    /\ ret = [p \in Procs |-> RetNone]
    /\ persisted = None
    /\ completed = {}
    /\ raced = FALSE
    /\ hook = HookInit

Done(c) ==
    [kind |-> c.kind, key |-> _domain_key(c.domains), at |-> c.at,
     confidence |-> c.confidence, regime |-> c.regime, conflicts |-> c.conflicts]

----------------------------------------------------------------------------
(* Sequential execution: one caller, each call runs from _load_library to  *)
(* the end of _save_library before the next call starts.                   *)

Atomic(p, c) ==
    LET call == [c EXCEPT !.at = clock]
        out == Apply(call, _load_library(file, clock), clock)
    IN  /\ Readable(file)
        /\ clock' = clock + 1
        /\ op' = [op EXCEPT ![p] = call]
        /\ ret' = [ret EXCEPT ![p] = out.ret]
        /\ file' = IF out.saved THEN FileComplete(out.lib, p) ELSE file
        /\ persisted' = IF out.saved THEN Some(out.lib) ELSE persisted
        /\ completed' = IF out.saved THEN completed \cup {Done(call)} ELSE completed
        /\ UNCHANGED <<pc, pending, raced, hook>>

\* no call is running and the bound on calls is not reached
Quiet == clock < MaxClock /\ \A q \in Procs : pc[q] = "idle"

SeqSaveDraft(d, t) ==
    /\ Quiet
    /\ Atomic("p1", CallSaveDraft(d, t, "intent", "auto"))

SeqCurate(d, e) ==
    /\ Quiet
    /\ Atomic("p1", CallCurate(d, e, "human", ""))

SeqLogRun(d) ==
    /\ Quiet
    /\ Atomic("p1", CallLogRun(d, Confidence09, "bull", <<>>))

SeqRollback(d, v) ==
    /\ Quiet
    /\ Atomic("p1", CallRollback(d, v))

SeqDelete(d) ==
    /\ Quiet
    /\ Atomic("p1", CallDelete(d))

SeqGetPrompt(d) ==
    /\ Quiet
    /\ Atomic("p1", CallGetPrompt(d))

SeqGetBestPrompt(d) ==
    /\ Quiet
    /\ Atomic("p1", CallGetBestPrompt(d))

SeqListPrompts(st) ==
    /\ Quiet
    /\ Atomic("p1", CallListPrompts(st))

SeqDomains == {DomA, DomB}
SeqFilters == {None, Some("curated"), Some("draft")}
SeqEdits == {None, Some("v3")}

SeqNext ==
    \/ \E d \in SeqDomains, t \in Texts : SeqSaveDraft(d, t)
    \/ \E d \in SeqDomains, e \in SeqEdits : SeqCurate(d, e)
    \/ \E d \in SeqDomains : SeqLogRun(d)
    \/ \E d \in SeqDomains, v \in 1..MaxClock : SeqRollback(d, v)
    \/ \E d \in SeqDomains : SeqDelete(d)
    \/ \E d \in SeqDomains : SeqGetPrompt(d)
    \/ \E d \in SeqDomains : SeqGetBestPrompt(d)
    \/ \E st \in SeqFilters : SeqListPrompts(st)

SeqSpec == Init /\ [][SeqNext]_vars

----------------------------------------------------------------------------
(* Concurrent execution: callers run the public calls in parallel on the   *)
(* one file.  A call reads the file (_load_library) and runs its body in   *)
(* one step; _save_library is open(path, "w") (truncation), json.dump      *)
(* (which may flush a prefix) and the close that flushes the rest.         *)

Invoke(p, c) ==
    LET call == [c EXCEPT !.at = clock] IN
    /\ pc[p] = "idle"
    /\ clock < MaxCalls
    /\ clock' = clock + 1
    /\ op' = [op EXCEPT ![p] = call]
    /\ IF Readable(file)
       THEN LET out == Apply(call, _load_library(file, clock), clock) IN
            IF out.saved
            THEN /\ pc' = [pc EXCEPT ![p] = "save"]
                 /\ pending' = [pending EXCEPT ![p] = Some(out)]
                 /\ ret' = [ret EXCEPT ![p] = Running]
            ELSE /\ ret' = [ret EXCEPT ![p] = out.ret]
                 /\ UNCHANGED <<pc, pending>>
       ELSE \* json.load raises on an empty or cut-off document
            /\ ret' = [ret EXCEPT ![p] = RetError("StorageFailure")]
            /\ UNCHANGED <<pc, pending>>
    /\ UNCHANGED <<file, persisted, completed, raced, hook>>

SaveDraft(p, d, t) ==
    /\ pc[p] = "idle"
    /\ Invoke(p, CallSaveDraft(d, t, "intent", "auto"))

Curate(p, d, e) ==
    /\ pc[p] = "idle"
    /\ Invoke(p, CallCurate(d, e, "human", ""))

LogRun(p, d) ==
    /\ pc[p] = "idle"
    /\ Invoke(p, CallLogRun(d, Confidence09, "bull", <<>>))

Rollback(p, d, v) ==
    /\ pc[p] = "idle"
    /\ Invoke(p, CallRollback(d, v))

Delete(p, d) ==
    /\ pc[p] = "idle"
    /\ Invoke(p, CallDelete(d))

\* with open(path, "w") as f: the file is created or truncated to length 0
WriteOpen(p) ==
    /\ pc[p] = "save"
    /\ pc' = [pc EXCEPT ![p] = "opened"]
    /\ file' = FileOf("empty", p)
    /\ UNCHANGED <<clock, op, pending, ret, persisted, completed, raced, hook>>

\* json.dump(lib, f, ...): the buffer fills and a prefix reaches the file
WriteDump(p) ==
    /\ pc[p] = "opened"
    /\ pc' = [pc EXCEPT ![p] = "dumping"]
    /\ file' = FileOf("partial", p)
    /\ UNCHANGED <<clock, op, pending, ret, persisted, completed, raced, hook>>

\* What the close leaves in the file.  When no other caller opened or wrote
\* the file since this caller's open, the document.  Otherwise this caller's
\* bytes landed in a file another caller truncated or wrote: the document,
\* when they cover all of it, or a mix of both.
CloseStates(p) == IF file.by = p THEN {"complete"} ELSE {"complete", "garbled"}

\* leaving the with block: the rest is flushed, the call returns
WriteClose(p) ==
    /\ pc[p] \in {"opened", "dumping"}
    /\ \E st \in CloseStates(p) :
          /\ file' = IF st = "complete"
                     THEN FileComplete(The(pending[p]).lib, p)
                     ELSE FileOf(st, p)
          /\ persisted' = IF st = "complete"
                          THEN Some(The(pending[p]).lib)
                          ELSE persisted
    /\ pc' = [pc EXCEPT ![p] = "idle"]
    /\ ret' = [ret EXCEPT ![p] = The(pending[p]).ret]
    /\ pending' = [pending EXCEPT ![p] = None]
    /\ completed' = completed \cup {Done(op[p])}
    /\ raced' = (raced \/ file.by # p)
    /\ UNCHANGED <<clock, op, hook>>

\* the caller's process dies inside _save_library; a new caller takes its place
Crash(p) ==
    /\ pc[p] \in {"save", "opened", "dumping"}
    /\ pc' = [pc EXCEPT ![p] = "idle"]
    /\ ret' = [ret EXCEPT ![p] = RetError("Crashed")]
    /\ pending' = [pending EXCEPT ![p] = None]
    /\ UNCHANGED <<file, clock, op, persisted, completed, raced, hook>>

Domains == {DomA, DomB}

Next ==
    \/ \E p \in Procs, d \in Domains : SaveDraft(p, d, "v1")
    \/ \E p \in Procs, d \in Domains : Curate(p, d, Some("v2"))
    \/ \E p \in Procs, d \in Domains : LogRun(p, d)
    \/ \E p \in Procs, d \in Domains, v \in 1..MaxCalls : Rollback(p, d, v)
    \/ \E p \in Procs, d \in Domains : Delete(p, d)
    \/ \E p \in Procs : WriteOpen(p)
    \/ \E p \in Procs : WriteDump(p)
    \/ \E p \in Procs : WriteClose(p)
    \/ \E p \in Procs : Crash(p)

Spec == Init /\ [][Next]_vars

----------------------------------------------------------------------------
(* Long sequential histories of one entry.  The behaviours start from the  *)
(* document that LongSeed successive save_draft calls on an empty store    *)
(* leave (one call per clock tick), so that few further calls bring the    *)
(* history list to its cap.                                                *)

\* save_draft calls already made when a long behaviour starts
LongSeed == 10

\* further calls issued in one long behaviour
MaxLongCalls == 3

RECURSIVE Drafted(_)
Drafted(n) ==
    IF n = 0 THEN FreshLibrary(0)
    ELSE save_draft(Drafted(n - 1), DomA, "v1", "intent", "auto", n - 1).lib

LongInit ==
    /\ file = FileComplete(Drafted(LongSeed), "p1")
    /\ clock = LongSeed
    /\ pc = [p \in Procs |-> "idle"]
    /\ op = [p \in Procs |-> NoCall]
    /\ pending = [p \in Procs |-> None]
    /\ ret = [p \in Procs |-> RetNone]
    /\ persisted = Some(Drafted(LongSeed))
    /\ completed = {}
    /\ raced = FALSE
    /\ hook = HookInit

Long == clock < LongSeed + MaxLongCalls /\ \A q \in Procs : pc[q] = "idle"

LongSaveDraft(t) ==
    /\ Long
    /\ Atomic("p1", CallSaveDraft(DomA, t, "intent", "auto"))

LongCurate(e) ==
    /\ Long
    /\ Atomic("p1", CallCurate(DomA, e, "human", ""))

LongLogRun ==
    /\ Long
    /\ Atomic("p1", CallLogRun(DomA, Confidence09, "bull", <<>>))

LongRollback(v) ==
    /\ Long
    /\ Atomic("p1", CallRollback(DomA, v))

LongDelete ==
    /\ Long
    /\ Atomic("p1", CallDelete(DomA))

LongNext ==
    \/ \E t \in Texts : LongSaveDraft(t)
    \/ \E e \in SeqEdits : LongCurate(e)
    \/ LongLogRun
    \/ \E v \in 1..(LongSeed + MaxLongCalls) : LongRollback(v)
    \/ LongDelete

LongSpec == LongInit /\ [][LongNext]_vars

----------------------------------------------------------------------------
(* The life of one entry around auto-promotion.  Every behaviour starts    *)
(* from the empty store with one save_draft and LifeSeedRuns log_run calls *)
(* of confidence 0.6, so that few further calls bring the entry to the 20  *)
(* runs of the auto-evolve rule.                                           *)

\* log_run calls that open every behaviour of the life of an entry
LifeSeedRuns == 18

\* further calls issued in one such behaviour
MaxLifeCalls == 4

LifeSeedDraft ==
    /\ clock = 0
    /\ Atomic("p1", CallSaveDraft(DomA, "v1", "intent", "auto"))

LifeSeedRun ==
    /\ clock \in 1..LifeSeedRuns
    /\ Atomic("p1", CallLogRun(DomA, Confidence06, "bull", <<>>))

Life ==
    /\ clock > LifeSeedRuns
    /\ clock < LifeSeedRuns + 1 + MaxLifeCalls
    /\ \A q \in Procs : pc[q] = "idle"

LifeLogRun(c) ==
    /\ Life
    /\ Atomic("p1", CallLogRun(DomA, c, "bull", <<>>))

\* a later save_draft comes with another user_intent than the first
LifeSaveDraft(t) ==
    /\ Life
    /\ Atomic("p1", CallSaveDraft(DomA, t, "intent again", "auto"))

LifeCurate(e, notes) ==
    /\ Life
    /\ Atomic("p1", CallCurate(DomA, e, "human", notes))

LifeRollback(v) ==
    /\ Life
    /\ Atomic("p1", CallRollback(DomA, v))

LifeDelete ==
    /\ Life
    /\ Atomic("p1", CallDelete(DomA))

\* the reading calls, also as the very first call, before any file exists
LifeGetPrompt ==
    /\ Life \/ clock = 0
    /\ Atomic("p1", CallGetPrompt(DomA))

LifeGetBestPrompt ==
    /\ Life \/ clock = 0
    /\ Atomic("p1", CallGetBestPrompt(DomA))

LifeConfidences == {Confidence03, Confidence06, Confidence09}
\* curate_prompt arguments: edited_prompt (None, "", a text) and notes
LifeCurations == {<<None, "">>, <<None, "n1">>, <<Some(""), "">>, <<Some("v3"), "n2">>}
LifeVersions == {1, 2}

LifeNext ==
    \/ LifeSeedDraft
    \/ LifeSeedRun
    \/ \E c \in LifeConfidences : LifeLogRun(c)
    \/ LifeSaveDraft("v2")
    \/ \E a \in LifeCurations : LifeCurate(a[1], a[2])
    \/ \E v \in LifeVersions : LifeRollback(v)
    \/ LifeDelete
    \/ LifeGetPrompt
    \/ LifeGetBestPrompt

LifeSpec == Init /\ [][LifeNext]_vars

----------------------------------------------------------------------------
(* Runs logged with different regime labels and conflict lists on one      *)
(* entry.                                                                  *)

\* calls issued in one behaviour
MaxRunCalls == 4

Runnable == clock < MaxRunCalls /\ \A q \in Procs : pc[q] = "idle"

RunSaveDraft ==
    /\ Runnable
    /\ Atomic("p1", CallSaveDraft(DomA, "v1", "intent", "auto"))

RunLogRun(regime, conflicts) ==
    /\ Runnable
    /\ Atomic("p1", CallLogRun(DomA, Confidence09, regime, conflicts))

RunDelete ==
    /\ Runnable
    /\ Atomic("p1", CallDelete(DomA))

\* regime labels, the empty string among them
RunRegimes == {"", "bull", "bear"}
RunConflicts == {<<>>, <<"housing vs energy">>}

RunNext ==
    \/ RunSaveDraft
    \/ \E r \in RunRegimes, k \in RunConflicts : RunLogRun(r, k)
    \/ RunDelete

RunSpec == Init /\ [][RunNext]_vars

----------------------------------------------------------------------------
(* Calls that name one entry by different domain lists: lists that differ  *)
(* in order, in letter case and in whitespace.                             *)

\* calls issued in one behaviour
MaxKeyCalls == 2

Keyed == clock < MaxKeyCalls /\ \A q \in Procs : pc[q] = "idle"

KeySaveDraft(d) ==
    /\ Keyed
    /\ Atomic("p1", CallSaveDraft(d, "v1", "intent", "auto"))

KeyCurate(d) ==
    /\ Keyed
    /\ Atomic("p1", CallCurate(d, None, "human", ""))

KeyLogRun(d) ==
    /\ Keyed
    /\ Atomic("p1", CallLogRun(d, Confidence09, "bull", <<>>))

KeyRollback(d) ==
    /\ Keyed
    /\ Atomic("p1", CallRollback(d, 1))

KeyDelete(d) ==
    /\ Keyed
    /\ Atomic("p1", CallDelete(d))

KeyGetPrompt(d) ==
    /\ Keyed
    /\ Atomic("p1", CallGetPrompt(d))

KeyDomains ==
    {DomAB, DomUpperBA, DomA, DomUpperA, DomDotlessI, DomUpperI, DomI,
     DomASpaceB, DomASpacesB, DomATabB, DomPaddedASpaceB, DomAPipeB}

KeyNext ==
    \E d \in KeyDomains :
        \/ KeySaveDraft(d)
        \/ KeyCurate(d)
        \/ KeyLogRun(d)
        \/ KeyRollback(d)
        \/ KeyDelete(d)
        \/ KeyGetPrompt(d)

KeySpec == Init /\ [][KeyNext]_vars

----------------------------------------------------------------------------
(* fetchVertical, one action per stretch of code between two awaits.  The  *)
(* JavaScript between two awaits runs without interruption; any other      *)
(* invocation can start or resume at an await.                             *)

\* what an invocation with this fetchId fetched for its verticalId
Fetched(h, fetchId) == Some([verticalId |-> h.calls[fetchId].verticalId, by |-> fetchId])

\* setConfig(configData); setData(rawData)
SetFetched(h, fetchId) ==
    [h EXCEPT !.config = Fetched(h, fetchId), !.data = Fetched(h, fetchId)]

\* catch (e) { if (fetchId === fetchRef.current) setError(e.message) }
Catch(h, fetchId, message) ==
    IF fetchId = h.fetchRef THEN [h EXCEPT !.error = Some(message)] ELSE h

\* finally { if (fetchId === fetchRef.current) setLoading(false) }; the
\* invocation ends
Finally(h, fetchId) ==
    [(IF fetchId = h.fetchRef THEN [h EXCEPT !.loading = FALSE] ELSE h)
        EXCEPT !.calls[fetchId].pc = "done"]

\* the invocation goes on to its next await
Await(h, fetchId, at) == [h EXCEPT !.calls[fetchId].pc = at]

Library == <<file, clock, pc, op, pending, ret, persisted, completed, raced>>

\* fetchVertical is invoked: by the effect after verticalId changed (or at
\* mount), by refresh or by the 5-minute timer
FetchVertical(v) ==
    /\ hook.fetchRef < MaxFetches
    /\ hook' = [hook EXCEPT
                    !.verticalId = v,
                    !.fetchRef = hook.fetchRef + 1,
                    !.loading = TRUE,
                    !.error = None,
                    !.calls = Append(hook.calls, [pc |-> "responses", verticalId |-> v])]
    /\ UNCHANGED Library

\* await Promise.all([fetch config, fetch data]) ends: both responses are
\* there (each ok or not), or a fetch is rejected
ResponsesArrive(fetchId, settled, configOk, dataOk) ==
    /\ fetchId \in DOMAIN hook.calls
    /\ hook.calls[fetchId].pc = "responses"
    /\ hook' =
          IF ~settled THEN Finally(Catch(hook, fetchId, "Failed to fetch"), fetchId)
          ELSE IF fetchId # hook.fetchRef THEN Finally(hook, fetchId)
          ELSE IF ~configOk THEN Finally(Catch(hook, fetchId, "Config fetch failed"), fetchId)
          ELSE IF ~dataOk THEN Finally(Catch(hook, fetchId, "Data fetch failed"), fetchId)
          ELSE Await(hook, fetchId, "configBody")
    /\ UNCHANGED Library

\* await configRes.json() ends
ConfigBody(fetchId, parsed) ==
    /\ fetchId \in DOMAIN hook.calls
    /\ hook.calls[fetchId].pc = "configBody"
    /\ hook' = IF parsed THEN Await(hook, fetchId, "dataBody")
               ELSE Finally(Catch(hook, fetchId, "Unexpected token"), fetchId)
    /\ UNCHANGED Library

\* await dataRes.json() ends; setConfig, setData, then the analysis fetch
DataBody(fetchId, parsed) ==
    /\ fetchId \in DOMAIN hook.calls
    /\ hook.calls[fetchId].pc = "dataBody"
    /\ hook' = IF parsed THEN Await(SetFetched(hook, fetchId), fetchId, "analysis")
               ELSE Finally(Catch(hook, fetchId, "Unexpected token"), fetchId)
    /\ UNCHANGED Library

\* await fetch(analysis) ends; the test of fetchId comes before the await
\* of the body
AnalysisArrives(fetchId, settled, ok) ==
    /\ fetchId \in DOMAIN hook.calls
    /\ hook.calls[fetchId].pc = "analysis"
    /\ hook' = IF settled /\ fetchId = hook.fetchRef /\ ok
               THEN Await(hook, fetchId, "analysisBody")
               ELSE Finally(hook, fetchId)
    /\ UNCHANGED Library

\* await analysisRes.json() ends; setAnalysis (a rejection is swallowed)
AnalysisBody(fetchId, parsed) ==
    /\ fetchId \in DOMAIN hook.calls
    /\ hook.calls[fetchId].pc = "analysisBody"
    /\ hook' = IF parsed
               THEN Finally([hook EXCEPT !.analysis = Fetched(hook, fetchId)], fetchId)
               ELSE Finally(hook, fetchId)
    /\ UNCHANGED Library

HookNext ==
    \/ \E v \in Verticals : FetchVertical(v)
    \/ \E i \in 1..MaxFetches, settled, configOk, dataOk \in BOOLEAN :
          ResponsesArrive(i, settled, configOk, dataOk)
    \/ \E i \in 1..MaxFetches, parsed \in BOOLEAN : ConfigBody(i, parsed)
    \/ \E i \in 1..MaxFetches, parsed \in BOOLEAN : DataBody(i, parsed)
    \/ \E i \in 1..MaxFetches, settled, ok \in BOOLEAN : AnalysisArrives(i, settled, ok)
    \/ \E i \in 1..MaxFetches, parsed \in BOOLEAN : AnalysisBody(i, parsed)

HookSpec == Init /\ [][HookNext]_vars

----------------------------------------------------------------------------
(* Properties of concurrent executions (Spec)                              *)

\* the entries of a document, and those of the last complete document
Entries(lib) == lib.prompts
Persisted == Entries(The(persisted))

\* caller p's _save_library ends in this step
Saves(p) == pc[p] \in {"opened", "dumping"} /\ completed' # completed

\* C1: once a key's persisted entry is curated, its persisted text and
\* status are changed only by a curate_prompt or a rollback on that key, and
\* the entry is removed only by a delete_prompt on that key; in particular
\* no save_draft replaces them, however loads and writes interleave.
\* (Stated for behaviours in which no two writes overlapped, where the
\* content of the file after each write is certain.)
C1_CuratedChangedOnlyByCurateOrRollback ==
    [][\A p \in Procs :
         (Saves(p) /\ ~raced' /\ IsSome(persisted) /\ IsSome(persisted')) =>
            \A k \in DOMAIN Persisted :
               Persisted[k].status = "curated" =>
                  IF k \in DOMAIN Persisted'
                  THEN \/ /\ Persisted'[k].system_prompt = Persisted[k].system_prompt
                          /\ Persisted'[k].status = Persisted[k].status
                       \/ /\ op[p].kind \in {"curate_prompt", "rollback"}
                          /\ _domain_key(op[p].domains) = k
                  ELSE /\ op[p].kind = "delete_prompt"
                       /\ _domain_key(op[p].domains) = k]_vars

\* C2: load-mutate-replace sequences are atomic with respect to each other:
\* when every call has returned and only save_draft calls have saved, the
\* file holds an entry for every key a save_draft saved.  (Stated for
\* behaviours in which no two writes overlapped.)
C2_NoSaveDiscardsAnother ==
    ( /\ \A p \in Procs : pc[p] = "idle"
      /\ ~raced
      /\ file.state = "complete"
      /\ \A c \in completed : c.kind = "save_draft" )
    => \A c \in completed : c.key \in DOMAIN Entries(The(file.doc))

\* C4: replacing the document is atomic: whoever looks at the file, at any
\* moment and also after a crash, finds no file yet or a complete document.
C4_ReplaceIsAtomic == Readable(file)

\* C27: for every key, as long as its entry is not deleted, the persisted
\* version does not decrease from one persisted document to the next,
\* however the loads and writes of the calls interleave.  (Stated for
\* behaviours in which no two writes overlapped.)
C27_VersionNeverDecreases ==
    [][(~raced' /\ IsSome(persisted) /\ IsSome(persisted')) =>
          \A k \in DOMAIN Persisted \cap DOMAIN Persisted' :
             Persisted'[k].version >= Persisted[k].version]_vars

\* C37: a deletion is not undone by a log_run: when a delete_prompt for a
\* key has completed and the key has no persisted entry, the write of a
\* log_run for that key (also one that had loaded the store before the
\* delete_prompt wrote) leaves the key without persisted entry.  (Stated
\* for behaviours in which no two writes overlapped.)
C37_DeleteNotUndoneByLogRun ==
    [][\A p \in Procs :
         (/\ Saves(p)
          /\ op[p].kind = "log_run"
          /\ ~raced'
          /\ IsSome(persisted) /\ IsSome(persisted')
          /\ \E d \in completed :
                d.kind = "delete_prompt" /\ d.key = _domain_key(op[p].domains)
          /\ _domain_key(op[p].domains) \notin DOMAIN Persisted)
         => _domain_key(op[p].domains) \notin DOMAIN Persisted']_vars

\* C38: when log_run calls on one existing entry run concurrently and all
\* have completed, runs has grown by the number of those calls: after one
\* save_draft and m log_run calls on a key, and no other call, runs is m.
\* (Stated for behaviours in which no two writes overlapped.)
C38_ConcurrentRunsAllCounted ==
    ( /\ \A p \in Procs : pc[p] = "idle"
      /\ ~raced
      /\ file.state = "complete" )
    => \A k \in DOMAIN Entries(The(file.doc)) :
          ( /\ \A c \in completed : c.key = k /\ c.kind \in {"save_draft", "log_run"}
            /\ Cardinality({c \in completed : c.kind = "save_draft"}) = 1 )
          => Entries(The(file.doc))[k].performance.runs
                = Cardinality({c \in completed : c.kind = "log_run"})

----------------------------------------------------------------------------
(* Properties of long sequential histories (LongSpec)                      *)

\* C3: the history of every entry holds at most 10 snapshots.
C3_HistoryAtMostCap ==
    file.state = "complete" =>
        \A k \in DOMAIN Entries(The(file.doc)) :
            Len(Entries(The(file.doc))[k].history) <= HistoryCap

----------------------------------------------------------------------------
(* Properties of sequential executions (SeqSpec).  Every step of SeqSpec   *)
(* is one whole call of caller "p1": op' is the call, ret' its result,     *)
(* file the store before it and file' the store after it.                  *)

Stored(f) == IF f.state = "complete" THEN Entries(The(f.doc)) ELSE EmptyDict
Call == op'["p1"]
CallKey == _domain_key(Call.domains)
Result == ret'["p1"]
Called(kind) == clock' = clock + 1 /\ Call.kind = kind
LastCall == op["p1"]
LastKey == _domain_key(LastCall.domains)
LastResult == ret["p1"]

\* C5: save_draft on a key whose entry is curated returns the existing
\* entry and leaves the whole persisted store as it was.
C5_SaveDraftOnCuratedIsNoOp ==
    [][(/\ Called("save_draft")
        /\ CallKey \in DOMAIN Stored(file)
        /\ Stored(file)[CallKey].status = "curated")
       => /\ file' = file
          /\ Result = RetEntry(Stored(file)[CallKey])]_vars

\* a save_draft has just returned a curated entry
C5_Witness ==
    /\ LastCall.kind = "save_draft"
    /\ LastResult.kind = "entry"
    /\ The(LastResult.entry).status = "curated"
    /\ The(LastResult.entry).system_prompt # LastCall.text

\* C6: version is 1 after the save_draft that creates the entry; a later
\* save_draft on a non-curated entry, a successful curate_prompt and a
\* successful rollback each add exactly 1; no other call changes a version.
C6_VersionCountsMutations ==
    [][clock' = clock + 1 =>
        LET pre == Stored(file)
            post == Stored(file')
            k == CallKey
        IN  /\ \A j \in (DOMAIN pre \cap DOMAIN post) \ {k} :
                  post[j].version = pre[j].version
            /\ CASE Call.kind = "save_draft" /\ k \notin DOMAIN pre ->
                       k \in DOMAIN post /\ post[k].version = 1
                 [] Call.kind = "save_draft" /\ k \in DOMAIN pre
                       /\ pre[k].status # "curated" ->
                       k \in DOMAIN post /\ post[k].version = pre[k].version + 1
                 [] Call.kind \in {"curate_prompt", "rollback"}
                       /\ Result.kind = "entry" ->
                       k \in DOMAIN post /\ post[k].version = pre[k].version + 1
                 [] Call.kind = "delete_prompt" -> TRUE
                 [] OTHER ->
                       k \in DOMAIN pre =>
                          k \in DOMAIN post /\ post[k].version = pre[k].version]_vars

\* a second save_draft on a draft has produced version 2
C6_Witness ==
    /\ LastCall.kind = "save_draft"
    /\ LastResult.kind = "entry"
    /\ The(LastResult.entry).version = 2
    /\ The(LastResult.entry).status = "draft"
    /\ Len(The(LastResult.entry).history) = 1

\* C7: rollback to the version of a snapshot in history succeeds, sets text
\* and status to that snapshot's, sets version to the old version plus 1
\* (not to_version), and appends a snapshot of the old version, text and
\* status to history.
C7_RollbackRestoresSnapshot ==
    [][(/\ Called("rollback")
        /\ CallKey \in DOMAIN Stored(file)
        /\ \E i \in 1..Len(Stored(file)[CallKey].history) :
              Stored(file)[CallKey].history[i].version = Call.to_version)
       => LET old == Stored(file)[CallKey]
              new == Stored(file')[CallKey]
          IN  /\ CallKey \in DOMAIN Stored(file')
              /\ Result = RetEntry(new)
              /\ \A i \in 1..Len(old.history) :
                    old.history[i].version = Call.to_version =>
                       /\ new.system_prompt = old.history[i].system_prompt
                       /\ new.status = old.history[i].status
              /\ new.version = old.version + 1
              /\ new.version # Call.to_version
              /\ Len(new.history) = Len(old.history) + 1
              /\ SubSeq(new.history, 1, Len(old.history)) = old.history
              /\ new.history[Len(new.history)].version = old.version
              /\ new.history[Len(new.history)].system_prompt = old.system_prompt
              /\ new.history[Len(new.history)].status = old.status]_vars

\* the scenario of the specification: draft v1, draft v2, curate, rollback to 1
C7_Witness ==
    /\ LastCall.kind = "rollback"
    /\ LastCall.to_version = 1
    /\ LastResult.kind = "entry"
    /\ The(LastResult.entry).version = 4
    /\ The(LastResult.entry).system_prompt = "v1"
    /\ The(LastResult.entry).status = "draft"
    /\ Len(The(LastResult.entry).history) = 3
    /\ The(LastResult.entry).history[3].status = "curated"
    /\ The(LastResult.entry).history[3].system_prompt = "v3"

\* C8: rollback to a version that no snapshot of the entry's history has
\* fails with VersionNotFound and leaves the persisted store unchanged.
C8_RollbackUnknownVersionFails ==
    [][(/\ Called("rollback")
        /\ CallKey \in DOMAIN Stored(file)
        /\ \A i \in 1..Len(Stored(file)[CallKey].history) :
              Stored(file)[CallKey].history[i].version # Call.to_version)
       => /\ Result = RetError("VersionNotFound")
          /\ file' = file]_vars

\* a rollback on an entry with snapshots has just failed with VersionNotFound
C8_Witness ==
    /\ LastCall.kind = "rollback"
    /\ LastResult = RetError("VersionNotFound")
    /\ LastKey \in DOMAIN Stored(file)
    /\ Len(Stored(file)[LastKey].history) >= 2

\* C9: curate_prompt and rollback on a key without entry fail with NotFound,
\* create no entry and leave the persisted store unchanged.
C9_MissingEntryIsNotFound ==
    [][(/\ Called("curate_prompt") \/ Called("rollback")
        /\ CallKey \notin DOMAIN Stored(file))
       => /\ Result = RetError("NotFound")
          /\ file' = file
          /\ CallKey \notin DOMAIN Stored(file')]_vars

\* a curate_prompt has just failed with NotFound while another key has an entry
C9_Witness ==
    /\ LastCall.kind = "curate_prompt"
    /\ LastResult = RetError("NotFound")
    /\ LastKey \notin DOMAIN Stored(file)
    /\ DOMAIN Stored(file) # {}

\* C10: log_run on a key without entry returns without error, creates no
\* entry and leaves the persisted store unchanged.
C10_LogRunOnMissingEntryIsSilent ==
    [][(/\ Called("log_run")
        /\ CallKey \notin DOMAIN Stored(file))
       => /\ Result = RetNone
          /\ file' = file
          /\ CallKey \notin DOMAIN Stored(file')]_vars

\* a log_run on a missing key has just returned while another key has an entry
C10_Witness ==
    /\ LastCall.kind = "log_run"
    /\ LastResult = RetNone
    /\ LastKey \notin DOMAIN Stored(file)
    /\ DOMAIN Stored(file) # {}

----------------------------------------------------------------------------
(* Properties of the life of one entry (LifeSpec)                          *)

\* C11: after a log_run on an entry whose status was draft, the status is
\* evolving if and only if the updated runs is at least 20 and the updated
\* avg_confidence is strictly greater than 0.6, and draft otherwise; in
\* particular this decides the status after the 20th log_run.
C11_EvolvingIffThreshold ==
    [][(/\ Called("log_run")
        /\ CallKey \in DOMAIN Stored(file)
        /\ Stored(file)[CallKey].status = "draft")
       => LET new == Stored(file')[CallKey]
              over == BigLess(FloatLiteral(6, 10), new.performance.avg_confidence)
          IN  /\ CallKey \in DOMAIN Stored(file')
              /\ new.status = (IF new.performance.runs >= 20 /\ over
                               THEN "evolving" ELSE "draft")
              /\ new.performance.runs = 20 /\ over => new.status = "evolving"
              /\ new.performance.runs = 20 /\ ~over => new.status = "draft"]_vars

\* the 20th log_run has just promoted the entry
C11_Witness ==
    /\ LastCall.kind = "log_run"
    /\ LastKey \in DOMAIN Stored(file)
    /\ Stored(file)[LastKey].performance.runs = 20
    /\ Stored(file)[LastKey].status = "evolving"
    /\ Stored(file)[LastKey].version = 1

\* C12: log_run changes nothing of an entry but its performance and its
\* status: text, version, history, intent, notes and curation fields stay,
\* the status of a curated or evolving entry stays, and the only status
\* change is draft to evolving.
C12_LogRunFrame ==
    [][(/\ Called("log_run")
        /\ CallKey \in DOMAIN Stored(file))
       => LET old == Stored(file)[CallKey]
              new == Stored(file')[CallKey]
          IN  /\ CallKey \in DOMAIN Stored(file')
              /\ new.system_prompt = old.system_prompt
              /\ new.version = old.version
              /\ new.history = old.history
              /\ new.user_intent = old.user_intent
              /\ new.human_notes = old.human_notes
              /\ new.curated_at = old.curated_at
              /\ new.curated_by = old.curated_by
              /\ [new EXCEPT !.status = old.status,
                             !.performance = old.performance] = old
              /\ old.status \in {"curated", "evolving"} => new.status = old.status
              /\ new.status # old.status =>
                    old.status = "draft" /\ new.status = "evolving"]_vars

\* a log_run has just left a curated entry curated although its counters
\* satisfy the auto-evolve rule
C12_Witness ==
    /\ LastCall.kind = "log_run"
    /\ LastKey \in DOMAIN Stored(file)
    /\ Stored(file)[LastKey].status = "curated"
    /\ Stored(file)[LastKey].performance.runs >= 20
    /\ FloatGreater(Stored(file)[LastKey].performance.avg_confidence,
                    FloatLiteral(6, 10))
    /\ Stored(file)[LastKey].history # <<>>

\* the log_run calls an entry has received since it was created
RunsOf(entry) ==
    {d \in completed :
        d.kind = "log_run" /\ d.key = entry.key /\ d.at > entry.created_at}

\* the exact sum of the confidences of the calls that have one of the given
\* confidence values: each value times the number of calls that have it
RECURSIVE SumOver(_, _)
SumOver(values, calls) ==
    IF values = {} THEN <<>>
    ELSE Once(CHOOSE c \in values : TRUE, LAMBDA c :
            BigAdd(BigTimes(c, Cardinality({d \in calls : d.confidence = c})),
                   SumOver(values \ {c}, calls), 0))

\* the exact sum of the confidences of a set of calls
SumOfConfidence(calls) == SumOver({d.confidence : d \in calls}, calls)

\* 2^-40, in units of 2^-FracBits
Tolerance == <<0, 16>>

\* |a - b| <= t
Within(a, b, t) == ~BigLess(BigAdd(b, t, 0), a) /\ ~BigLess(BigAdd(a, t, 0), b)

\* C13 as stated: runs is the number n of log_run calls the entry has
\* received since it was created and avg_confidence is exactly the
\* arithmetic mean of their confidences (avg_confidence * n equals their
\* sum).
C13_MeanIsExact ==
    \A k \in DOMAIN Stored(file) :
        LET entry == Stored(file)[k] IN
        /\ entry.performance.runs = Cardinality(RunsOf(entry))
        /\ BigTimes(entry.performance.avg_confidence, entry.performance.runs)
              = SumOfConfidence(RunsOf(entry))

\* C13: runs is the number n of log_run calls the entry has received since
\* it was created, whatever save_draft, curate_prompt and rollback calls
\* came between them, and avg_confidence is within 2^-40 of the arithmetic
\* mean of their confidences.
C13_MeanWithinTolerance ==
    \A k \in DOMAIN Stored(file) :
        LET entry == Stored(file)[k] IN
        /\ entry.performance.runs = Cardinality(RunsOf(entry))
        /\ Within(BigTimes(entry.performance.avg_confidence, entry.performance.runs),
                  SumOfConfidence(RunsOf(entry)),
                  BigTimes(Tolerance, entry.performance.runs))

\* an entry saved again, curated and rolled back between its log_run calls
\* holds a rounded running average that is not the exact mean
C13_Witness ==
    /\ LastCall.kind = "log_run"
    /\ LastKey \in DOMAIN Stored(file)
    /\ Stored(file)[LastKey].performance.runs > 18
    /\ Stored(file)[LastKey].version > 2
    /\ BigTimes(Stored(file)[LastKey].performance.avg_confidence,
                Stored(file)[LastKey].performance.runs)
          # SumOfConfidence(RunsOf(Stored(file)[LastKey]))

\* the status of key k in a stored document, "absent" without entry
StatusOf(f, k) == IF k \in DOMAIN Stored(f) THEN Stored(f)[k].status ELSE "absent"

Keys == DOMAIN Stored(file) \cup DOMAIN Stored(file')

\* C14 as stated: every status change that save_draft, curate_prompt or
\* log_run makes is one of absent to draft, draft to evolving, evolving to
\* curated, curated to curated.
C14_OnlyLifecycleEdges ==
    [][(Called("save_draft") \/ Called("curate_prompt") \/ Called("log_run"))
       => \A k \in Keys :
             StatusOf(file, k) # StatusOf(file', k) =>
                <<StatusOf(file, k), StatusOf(file', k)>> \in
                    {<<"absent", "draft">>, <<"draft", "evolving">>,
                     <<"evolving", "curated">>, <<"curated", "curated">>}]_vars

\* C14: save_draft changes a status only from absent or evolving to draft,
\* log_run only from draft to evolving, curate_prompt only from draft or
\* evolving to curated; rollback sets the status of the snapshot it restores
\* and delete_prompt removes the entry; no call changes another key's status.
C14_StatusChangesByOperation ==
    [][clock' = clock + 1
       => \A k \in Keys :
             StatusOf(file, k) # StatusOf(file', k) =>
                /\ k = CallKey
                /\ Call.kind = "save_draft" =>
                      <<StatusOf(file, k), StatusOf(file', k)>> \in
                          {<<"absent", "draft">>, <<"evolving", "draft">>}
                /\ Call.kind = "log_run" =>
                      <<StatusOf(file, k), StatusOf(file', k)>> = <<"draft", "evolving">>
                /\ Call.kind = "curate_prompt" =>
                      <<StatusOf(file, k), StatusOf(file', k)>> \in
                          {<<"draft", "curated">>, <<"evolving", "curated">>}
                /\ Call.kind = "rollback" =>
                      \E i \in 1..Len(Stored(file)[k].history) :
                          /\ Stored(file)[k].history[i].version = Call.to_version
                          /\ Stored(file)[k].history[i].status = StatusOf(file', k)
                /\ Call.kind = "delete_prompt" => StatusOf(file', k) = "absent"
                /\ Call.kind \in {"save_draft", "log_run", "curate_prompt",
                                  "rollback", "delete_prompt"}]_vars

\* a save_draft has just turned an evolving entry into a draft
C14_Witness ==
    /\ LastCall.kind = "save_draft"
    /\ LastKey \in DOMAIN Stored(file)
    /\ Stored(file)[LastKey].status = "draft"
    /\ Stored(file)[LastKey].history # <<>>
    /\ Stored(file)[LastKey].history[Len(Stored(file)[LastKey].history)].status
          = "evolving"
    /\ Stored(file)[LastKey].history[Len(Stored(file)[LastKey].history)].version
          = Stored(file)[LastKey].version - 1

\* C15: the status of every persisted entry and of every snapshot in a
\* history is draft, evolving or curated; "fallback" and "none" are never
\* persisted.
C15_PersistedStatuses ==
    \A k \in DOMAIN Stored(file) :
        /\ Stored(file)[k].status \in {"draft", "evolving", "curated"}
        /\ Stored(file)[k].status \notin {"fallback", "none"}
        /\ \A i \in 1..Len(Stored(file)[k].history) :
              Stored(file)[k].history[i].status \in {"draft", "evolving", "curated"}

\* a rollback has just restored an evolving snapshot over a draft
C15_Witness ==
    /\ LastCall.kind = "rollback"
    /\ LastResult.kind = "entry"
    /\ LastKey \in DOMAIN Stored(file)
    /\ Stored(file)[LastKey].status = "evolving"
    /\ \E i \in 1..Len(Stored(file)[LastKey].history) :
          Stored(file)[LastKey].history[i].status = "draft"

----------------------------------------------------------------------------
(* Properties of single calls, continued (SeqSpec, LifeSpec)               *)

\* C16: save_draft on a key without entry creates an entry with version 1,
\* status draft, the supplied text, an empty history, runs 0, avg_confidence
\* 0, regime_changes 0, conflicts_detected 0, and neither curated_at nor
\* curated_by.
C16_SaveDraftCreates ==
    [][(/\ Called("save_draft")
        /\ CallKey \notin DOMAIN Stored(file))
       => LET new == Stored(file')[CallKey]
          IN  /\ CallKey \in DOMAIN Stored(file')
              /\ Result = RetEntry(new)
              /\ new.version = 1
              /\ new.status = "draft"
              /\ new.system_prompt = Call.text
              /\ new.history = <<>>
              /\ new.performance.runs = 0
              /\ new.performance.avg_confidence = FloatZero
              /\ new.performance.regime_changes = 0
              /\ new.performance.conflicts_detected = 0
              /\ new.curated_at = None
              /\ new.curated_by = None]_vars

\* a save_draft has just created a second entry in the store
C16_Witness ==
    /\ LastCall.kind = "save_draft"
    /\ LastKey \in DOMAIN Stored(file)
    /\ LastResult = RetEntry(Stored(file)[LastKey])
    /\ Stored(file)[LastKey].version = 1
    /\ Stored(file)[LastKey].created_at = LastCall.at
    /\ Cardinality(DOMAIN Stored(file)) = 2

\* C17: save_draft on an entry with status draft or evolving sets the text
\* to the supplied text and the status to draft, adds 1 to version, appends
\* a snapshot of the previous version, text and status to history (of
\* which the last 10 snapshots are kept), and leaves performance (counters
\* and last_regime) and human_notes as they were.
C17_SaveDraftOverwrites ==
    [][(/\ Called("save_draft")
        /\ CallKey \in DOMAIN Stored(file)
        /\ Stored(file)[CallKey].status \in {"draft", "evolving"})
       => LET old == Stored(file)[CallKey]
              new == Stored(file')[CallKey]
              last == new.history[Len(new.history)]
          IN  /\ CallKey \in DOMAIN Stored(file')
              /\ Result = RetEntry(new)
              /\ new.system_prompt = Call.text
              /\ new.status = "draft"
              /\ new.version = old.version + 1
              /\ Len(new.history) = IF Len(old.history) < 10
                                    THEN Len(old.history) + 1 ELSE 10
              /\ SubSeq(new.history, 1, Len(new.history) - 1)
                    = SubSeq(old.history, Len(old.history) - Len(new.history) + 2,
                             Len(old.history))
              /\ last.version = old.version
              /\ last.system_prompt = old.system_prompt
              /\ last.status = old.status
              /\ new.performance = old.performance
              /\ new.performance.last_regime = old.performance.last_regime
              /\ new.human_notes = old.human_notes]_vars

\* a save_draft has just overwritten a draft that carries the notes of an
\* earlier curation and the counters of its runs
C17_Witness ==
    /\ LastCall.kind = "save_draft"
    /\ LastKey \in DOMAIN Stored(file)
    /\ LastResult = RetEntry(Stored(file)[LastKey])
    /\ Stored(file)[LastKey].status = "draft"
    /\ Stored(file)[LastKey].version = 5
    /\ Stored(file)[LastKey].human_notes = "n1"
    /\ Stored(file)[LastKey].performance.runs = 18
    /\ Stored(file)[LastKey].performance.last_regime = Some("bull")

\* C18: a successful curate_prompt sets the status to curated, adds 1 to
\* version, sets curated_at and curated_by, sets the text to every supplied
\* edited_prompt, the empty string included, and leaves it without one;
\* human_notes becomes notes when notes is non-empty and stays otherwise.
C18_CurateApplies ==
    [][(/\ Called("curate_prompt")
        /\ CallKey \in DOMAIN Stored(file))
       => LET old == Stored(file)[CallKey]
              new == Stored(file')[CallKey]
          IN  /\ CallKey \in DOMAIN Stored(file')
              /\ Result = RetEntry(new)
              /\ new.status = "curated"
              /\ new.version = old.version + 1
              /\ new.curated_at = Some(Call.at)
              /\ new.curated_by = Some(Call.by)
              /\ new.system_prompt = (IF IsSome(Call.edited) THEN The(Call.edited)
                                      ELSE old.system_prompt)
              /\ new.human_notes = (IF Call.notes # "" THEN Call.notes
                                    ELSE old.human_notes)]_vars

\* C19: delete_prompt returns True exactly when the key had an entry and
\* leaves every other entry alone; after it the key has no entry: get_prompt
\* returns None, rollback and curate_prompt fail with NotFound, and a
\* save_draft creates an entry at version 1 with an empty history and
\* zeroed performance.
C19_DeleteRemoves ==
    [][Called("delete_prompt")
       => LET lib == _load_library(file', clock')
              created(t) ==
                  The(Apply(CallSaveDraft(Call.domains, t, "intent", "auto"),
                            lib, clock').ret.entry)
          IN  /\ Result = RetBool(CallKey \in DOMAIN Stored(file))
              /\ CallKey \notin DOMAIN Stored(file')
              /\ \A k \in DOMAIN Stored(file) \ {CallKey} :
                    k \in DOMAIN Stored(file') /\ Stored(file')[k] = Stored(file)[k]
              /\ Apply(CallGetPrompt(Call.domains), lib, clock').ret = RetNone
              /\ Apply(CallCurate(Call.domains, None, "human", ""), lib, clock').ret
                    = RetError("NotFound")
              /\ \A v \in 1..MaxClock :
                    Apply(CallRollback(Call.domains, v), lib, clock').ret
                       = RetError("NotFound")
              /\ \A t \in Texts :
                    /\ created(t).version = 1
                    /\ created(t).system_prompt = t
                    /\ created(t).history = <<>>
                    /\ created(t).performance.runs = 0
                    /\ created(t).performance.avg_confidence = FloatZero
                    /\ created(t).performance.regime_changes = 0
                    /\ created(t).performance.conflicts_detected = 0]_vars

\* a save_draft has just created the entry of a key anew, after a delete of
\* the entry that had a logged run
C19_Witness ==
    /\ LastCall.kind = "save_draft"
    /\ LastKey \in DOMAIN Stored(file)
    /\ Stored(file)[LastKey].version = 1
    /\ Stored(file)[LastKey].history = <<>>
    /\ Stored(file)[LastKey].performance.runs = 0
    /\ \E d \in completed, r \in completed :
          /\ d.kind = "delete_prompt" /\ d.key = LastKey
          /\ r.kind = "log_run" /\ r.key = LastKey
          /\ r.at < d.at /\ d.at < LastCall.at

----------------------------------------------------------------------------
(* Properties of the key (KeySpec)                                         *)

\* c.upper(), for letters
UpperChar(c) ==
    CASE c = "a" -> "A"
      [] c = "b" -> "B"
      [] c = "i" -> "I"
      [] c = DotlessI -> "I"
      [] OTHER -> c

\* tag b is tag a with some letters put in another case
Recased(a, b) ==
    /\ Len(a) = Len(b)
    /\ \A i \in 1..Len(a) : b[i] \in {a[i], LowerChar(a[i]), UpperChar(a[i])}

\* list B is a permutation of list A with any tags re-cased
RecasedPermutation(A, B) ==
    /\ Len(A) = Len(B)
    /\ \E f \in [1..Len(A) -> 1..Len(A)] :
          /\ \A i, j \in 1..Len(A) : f[i] = f[j] => i = j
          /\ \A i \in 1..Len(A) : Recased(A[i], B[f[i]])

\* C20: the key does not depend on the order and the letter case of the
\* tags: a call whose domain list is a permutation, with any tags re-cased,
\* of the domain list an entry was saved under addresses that entry.
C20_KeyIgnoresOrderAndCase ==
    [][clock' = clock + 1
       => \A k \in DOMAIN Stored(file) :
             RecasedPermutation(Stored(file)[k].domains, Call.domains)
                => /\ CallKey = k
                   /\ _domain_key(Stored(file)[k].domains) = _domain_key(Call.domains)]_vars

\* tag s with every run of whitespace replaced by one space
RECURSIVE SqueezeWhitespace(_)
SqueezeWhitespace(s) ==
    IF s = <<>> THEN <<>>
    ELSE IF Head(s) \notin Whitespace THEN <<Head(s)>> \o SqueezeWhitespace(Tail(s))
    ELSE IF Tail(s) # <<>> /\ Head(Tail(s)) \in Whitespace
         THEN SqueezeWhitespace(Tail(s))
         ELSE <<" ">> \o SqueezeWhitespace(Tail(s))

\* tags a and b differ only in leading and trailing whitespace and in the
\* length and kind of their runs of internal whitespace
SameButWhitespace(a, b) ==
    SqueezeWhitespace(Strip(a)) = SqueezeWhitespace(Strip(b))

\* list B is list A with the whitespace of any tags rewritten
WhitespaceVariant(A, B) ==
    /\ Len(A) = Len(B)
    /\ \A i \in 1..Len(A) : SameButWhitespace(A[i], B[i])

\* C30: the key does not depend on the whitespace of the tags: a call whose
\* domain list differs from the one an entry was saved under only in
\* leading or trailing whitespace or in the length or kind (space, tab) of
\* runs of internal whitespace addresses that entry, every internal run
\* counting as one underscore.
C30_KeyIgnoresWhitespace ==
    [][clock' = clock + 1
       => \A k \in DOMAIN Stored(file) :
             WhitespaceVariant(Stored(file)[k].domains, Call.domains)
                => /\ CallKey = k
                   /\ _domain_key(Stored(file)[k].domains) = _domain_key(Call.domains)]_vars

\* C31: the joined string that is hashed determines the sorted list of
\* normalized tags: a call whose domain list has another sorted normalized
\* tag list than the one an entry was saved under (one tag that holds the
\* separator against two tags, for example) never addresses that entry.
C31_JoinedStringDeterminesTags ==
    [][clock' = clock + 1
       => \A k \in DOMAIN Stored(file) :
             NormalizedTags(Stored(file)[k].domains) # NormalizedTags(Call.domains)
                => /\ CallKey # k
                   /\ Join(NormalizedTags(Stored(file)[k].domains))
                         # Join(NormalizedTags(Call.domains))]_vars

----------------------------------------------------------------------------
(* Properties of the fields of one entry (LifeSpec)                        *)

\* the keys that have an entry before and after a step
Kept == DOMAIN Stored(file) \cap DOMAIN Stored(file')

\* C21: once curated_at and curated_by of an entry are set, no call on the
\* entry other than delete_prompt resets them to None.
C21_CurationFieldsStay ==
    [][(clock' = clock + 1 /\ Call.kind # "delete_prompt")
       => \A k \in Kept :
             /\ IsSome(Stored(file)[k].curated_at) => IsSome(Stored(file')[k].curated_at)
             /\ IsSome(Stored(file)[k].curated_by) => IsSome(Stored(file')[k].curated_by)]_vars

\* C22: the user_intent of an entry is the one of the save_draft that
\* created it: no later save_draft, curate_prompt, rollback or log_run
\* changes it.
C22_IntentIsFixed ==
    [][(clock' = clock + 1
        /\ Call.kind \in {"save_draft", "curate_prompt", "rollback", "log_run"})
       => \A k \in Kept : Stored(file')[k].user_intent = Stored(file)[k].user_intent]_vars

\* C22, as the code has it: a save_draft that writes the entry sets
\* user_intent to its own argument, a save_draft on a curated entry leaves
\* it, and curate_prompt, rollback and log_run leave it.
C22_IntentFollowsSaveDraft ==
    [][(clock' = clock + 1
        /\ Call.kind \in {"save_draft", "curate_prompt", "rollback", "log_run"})
       => \A k \in Kept :
             Stored(file')[k].user_intent =
                 IF /\ Call.kind = "save_draft"
                    /\ k = CallKey
                    /\ Stored(file)[k].status # "curated"
                 THEN Call.intent
                 ELSE Stored(file)[k].user_intent]_vars

\* a second save_draft has just written the entry with another intent than
\* the one the entry was created with
C22_Witness ==
    /\ LastCall.kind = "save_draft"
    /\ LastKey \in DOMAIN Stored(file)
    /\ Stored(file)[LastKey].version > 1
    /\ Stored(file)[LastKey].updated_at = LastCall.at
    /\ Stored(file)[LastKey].user_intent = LastCall.intent
    /\ \E d \in completed :
          /\ d.kind = "save_draft"
          /\ d.at = Stored(file)[LastKey].created_at
          /\ d.at < LastCall.at

\* C23: every call that changes a persisted field of an entry (save_draft
\* on an entry that is not curated, curate_prompt, rollback, log_run) sets
\* the entry's updated_at to the time of the call.
C23_EveryChangeStampsUpdatedAt ==
    [][(/\ clock' = clock + 1
        /\ Call.kind \in {"save_draft", "curate_prompt", "rollback", "log_run"}
        /\ CallKey \in DOMAIN Stored(file')
        /\ Stored(file') # Stored(file))
       => Stored(file')[CallKey].updated_at = Call.at]_vars

\* C24: as long as an entry is not deleted, save_draft, curate_prompt,
\* rollback and log_run leave its key and its created_at as they are, and
\* the key of every entry is the key it is stored under.
C24_KeyAndCreatedAtFixed ==
    [][/\ \A k \in DOMAIN Stored(file') : Stored(file')[k].key = k
       /\ (clock' = clock + 1
           /\ Call.kind \in {"save_draft", "curate_prompt", "rollback", "log_run"})
          => \A k \in Kept :
                /\ Stored(file')[k].key = Stored(file)[k].key
                /\ Stored(file')[k].created_at = Stored(file)[k].created_at]_vars

\* a save_draft has just overwritten an entry created earlier: updated_at
\* is the time of the call, created_at still the time of creation
C24_Witness ==
    /\ LastCall.kind = "save_draft"
    /\ LastKey \in DOMAIN Stored(file)
    /\ Stored(file)[LastKey].key = LastKey
    /\ Stored(file)[LastKey].version > 1
    /\ Stored(file)[LastKey].updated_at = LastCall.at
    /\ Stored(file)[LastKey].created_at < LastCall.at
    /\ \E d \in completed : d.kind = "rollback" /\ d.key = LastKey

\* C34: an entry whose status is curated has curated_at and curated_by
\* set, also when a rollback has restored the curated status.
C34_CuratedHasCurationFields ==
    \A k \in DOMAIN Stored(file) :
        Stored(file)[k].status = "curated"
           => /\ IsSome(Stored(file)[k].curated_at)
              /\ IsSome(Stored(file)[k].curated_by)

\* C35: an entry whose status is evolving has at least 20 runs; runs never
\* decreases while the entry exists; and log_run leaves an evolving entry
\* evolving, also when its avg_confidence has fallen to 0.6 or below.
C35_EvolvingHasTwentyRuns ==
    [][/\ \A k \in DOMAIN Stored(file') :
             Stored(file')[k].status = "evolving"
                => Stored(file')[k].performance.runs >= 20
       /\ \A k \in Kept :
             Stored(file')[k].performance.runs >= Stored(file)[k].performance.runs
       /\ (/\ Called("log_run")
           /\ CallKey \in DOMAIN Stored(file)
           /\ Stored(file)[CallKey].status = "evolving")
          => Stored(file')[CallKey].status = "evolving"]_vars

\* a log_run has just brought the average of an evolving entry down to 0.6
\* or below, and the entry is still evolving
C35_Witness ==
    /\ LastCall.kind = "log_run"
    /\ LastKey \in DOMAIN Stored(file)
    /\ Stored(file)[LastKey].status = "evolving"
    /\ Stored(file)[LastKey].performance.runs > 20
    /\ Stored(file)[LastKey].performance.last_run = Some(LastCall.at)
    /\ ~FloatGreater(Stored(file)[LastKey].performance.avg_confidence,
                     FloatLiteral(6, 10))

\* the calls that set the current text of key k before the step ends, and
\* the log_run calls on k made after the last of them
TextSetters(k) ==
    {d \in completed' : d.key = k /\ d.kind \in {"save_draft", "rollback"}}
RunsOfCurrentText(k) ==
    {d \in completed' :
        /\ d.key = k
        /\ d.kind = "log_run"
        /\ \A t \in TextSetters(k) : t.at < d.at}

\* C36: a draft is promoted only after 20 runs of its own text: whenever
\* log_run changes an entry from draft to evolving, at least 20 log_run
\* calls have been applied to the entry since save_draft or rollback last
\* set its current text.
C36_PromotedAfterRunsOfOwnText ==
    [][(/\ Called("log_run")
        /\ CallKey \in DOMAIN Stored(file)
        /\ Stored(file)[CallKey].status = "draft"
        /\ Stored(file')[CallKey].status = "evolving")
       => Cardinality(RunsOfCurrentText(CallKey)) >= 20]_vars

----------------------------------------------------------------------------
(* Properties of the reading calls (SeqSpec)                               *)

\* the entries of a store, as a set
EntrySet(f) == {Stored(f)[k] : k \in DOMAIN Stored(f)}

\* C25: list_prompts(status) returns exactly the persisted entries whose
\* status is the filter (all entries without filter), each once, in order
\* of non-increasing updated_at, and leaves the store as it was.
C25_ListPromptsFiltersAndSorts ==
    [][Called("list_prompts")
       => LET wanted == IF IsSome(Call.status)
                        THEN {e \in EntrySet(file) : e.status = The(Call.status)}
                        ELSE EntrySet(file)
              l == Result.list
          IN  /\ Result.kind = "list"
              /\ {l[i] : i \in 1..Len(l)} = wanted
              /\ Len(l) = Cardinality(wanted)
              /\ \A i \in 1..(Len(l) - 1) : l[i].updated_at >= l[i + 1].updated_at
              /\ file' = file
              /\ persisted' = persisted]_vars

\* list_prompts without filter has just returned two entries, the one
\* curated after the other was saved first
C25_Witness ==
    /\ LastCall.kind = "list_prompts"
    /\ LastCall.status = None
    /\ LastResult.kind = "list"
    /\ Len(LastResult.list) = 2
    /\ Cardinality(EntrySet(file)) = 2
    /\ LastResult.list[1].status = "curated"
    /\ LastResult.list[2].status = "draft"
    /\ LastResult.list[1].created_at < LastResult.list[2].created_at
    /\ LastResult.list[1].updated_at > LastResult.list[2].updated_at

\* C26: get_best_prompt returns the text of the entry whenever the key has
\* an entry (whose status is draft, evolving or curated) and None exactly
\* when it has none; get_prompt and get_best_prompt leave the store as it
\* was, also when no file has been written yet.
C26_ReadsReturnTextAndKeepStore ==
    [][/\ Called("get_best_prompt")
          => /\ CallKey \in DOMAIN Stored(file)
                => /\ Stored(file)[CallKey].status \in {"draft", "evolving", "curated"}
                   /\ Result = RetText(Some(Stored(file)[CallKey].system_prompt))
             /\ CallKey \notin DOMAIN Stored(file) => Result = RetText(None)
       /\ (Called("get_prompt") \/ Called("get_best_prompt"))
          => /\ file' = file
             /\ persisted' = persisted
             /\ completed' = completed]_vars

\* get_best_prompt has just returned the text of an evolving entry
C26_Witness ==
    /\ LastCall.kind = "get_best_prompt"
    /\ LastKey \in DOMAIN Stored(file)
    /\ Stored(file)[LastKey].status = "evolving"
    /\ LastResult = RetText(Some(Stored(file)[LastKey].system_prompt))

\* get_best_prompt was the first call ever: it returned None and there is
\* still no file
C26_WitnessNoFile ==
    /\ clock = 1
    /\ LastCall.kind = "get_best_prompt"
    /\ LastResult = RetText(None)
    /\ file = FileAbsent
    /\ persisted = None

\* C39: a call for key K (save_draft, curate_prompt, log_run, rollback,
\* delete_prompt, whether it succeeds or fails) leaves the entries of all
\* other keys as they were and adds none, and leaves metadata.created of a
\* store that has been written as it was.
C39_OtherKeysAndMetadataKept ==
    [][(/\ clock' = clock + 1
        /\ Call.kind \in {"save_draft", "curate_prompt", "log_run", "rollback",
                          "delete_prompt"})
       => /\ DOMAIN Stored(file') \ {CallKey} = DOMAIN Stored(file) \ {CallKey}
          /\ \A k \in DOMAIN Stored(file) \ {CallKey} :
                Stored(file')[k] = Stored(file)[k]
          /\ file.state = "complete"
                => /\ file'.state = "complete"
                   /\ The(file'.doc).metadata = The(file.doc).metadata]_vars

\* a save_draft for one key has just been written into the store that
\* holds the curated entry of another key, which is still there
C39_Witness ==
    /\ LastCall.kind = "save_draft"
    /\ LastKey \in DOMAIN Stored(file)
    /\ Stored(file)[LastKey].updated_at = LastCall.at
    /\ The(file.doc).metadata.created < LastCall.at
    /\ \E k \in DOMAIN Stored(file) \ {LastKey} :
          /\ Stored(file)[k].status = "curated"
          /\ Stored(file)[k].updated_at < LastCall.at

----------------------------------------------------------------------------
(* Properties of long sequential histories, continued (LongSpec)           *)

\* a rollback of an existing entry to an earlier version number is called
RollsBack ==
    /\ Called("rollback")
    /\ CallKey \in DOMAIN Stored(file)
    /\ Call.to_version >= 1
    /\ Call.to_version < Stored(file)[CallKey].version

C29_HistoryIsLastTenWithSnapshot ==
    [][(/\ CallKey \in DOMAIN Stored(file)
        /\ \/ /\ Called("save_draft")
              /\ Stored(file)[CallKey].status \in {"draft", "evolving"}
           \/ Called("curate_prompt"))
       => LET old == Stored(file)[CallKey]
              new == Stored(file')[CallKey]
              H == old.history
              kept == IF Len(H) + 1 <= 10 THEN Len(H) ELSE 9
              last == new.history[Len(new.history)]
          IN  /\ CallKey \in DOMAIN Stored(file')
              /\ Len(new.history) = kept + 1
              /\ \A i \in 1..kept : new.history[i] = H[Len(H) - kept + i]
              /\ last.version = old.version
              /\ last.system_prompt = old.system_prompt
              /\ last.status = old.status
              /\ last.saved_at = Call.at]_vars

\* a curate_prompt has just archived a snapshot into a full history: the
\* snapshot of version 1 is gone, the newest is the version curated
C29_Witness ==
    /\ LastCall.kind = "curate_prompt"
    /\ LastKey \in DOMAIN Stored(file)
    /\ Stored(file)[LastKey].status = "curated"
    /\ Len(Stored(file)[LastKey].history) = 10
    /\ Stored(file)[LastKey].history[1].version > 1
    /\ Stored(file)[LastKey].history[10].version = Stored(file)[LastKey].version - 1
    /\ Stored(file)[LastKey].history[10].saved_at = LastCall.at

\* C33: the version numbers of the snapshots in an entry's history
\* increase strictly from oldest to newest, and each is below the entry's
\* current version; a version number names at most one snapshot.
C33_HistoryVersionsIncrease ==
    \A k \in DOMAIN Stored(file) :
        LET entry == Stored(file)[k]
            h == entry.history
        IN  /\ \A i \in 1..Len(h) : h[i].version < entry.version
            /\ \A i \in 1..(Len(h) - 1) : h[i].version < h[i + 1].version
            /\ \A i, j \in 1..Len(h) : h[i].version = h[j].version => i = j

\* a rollback has just archived the current version on top of a full
\* history: 11 snapshots, versions 1 to 11, below the new version 12
C33_Witness ==
    /\ LastCall.kind = "rollback"
    /\ LastResult.kind = "entry"
    /\ LastKey \in DOMAIN Stored(file)
    /\ Len(Stored(file)[LastKey].history) > HistoryCap
    /\ Stored(file)[LastKey].history[1].version = 1
    /\ Stored(file)[LastKey].history[Len(Stored(file)[LastKey].history)].version
          = Stored(file)[LastKey].version - 1

----------------------------------------------------------------------------
(* Properties of the run counters (RunSpec)                                *)

\* the run of a set of calls made at time t, and the one made last before t
RunAt(calls, t) == CHOOSE d \in calls : d.at = t
RunBefore(calls, t) ==
    RunAt(calls, CHOOSE u \in {d.at : d \in calls} :
                    /\ u < t
                    /\ \A d \in calls : d.at < t => d.at <= u)

\* C32: after log_run calls with regime labels r_1..r_n (any strings, the
\* empty string among them) and conflict lists k_1..k_n on an entry,
\* regime_changes is the number of i in 2..n with r_i # r_(i-1),
\* last_regime is r_n, and conflicts_detected is the number of i with k_i
\* not empty.
C32_RegimeAndConflictCounters ==
    \A k \in DOMAIN Stored(file) :
        LET entry == Stored(file)[k]
            calls == RunsOf(entry)
            later == {d \in calls : \E e \in calls : e.at < d.at}
            newest == CHOOSE d \in calls : \A e \in calls : e.at <= d.at
        IN  calls # {} =>
              /\ entry.performance.regime_changes
                    = Cardinality({d \in later : d.regime # RunBefore(calls, d.at).regime})
              /\ entry.performance.last_regime = Some(newest.regime)
              /\ entry.performance.conflicts_detected
                    = Cardinality({d \in calls : d.conflicts # <<>>})

----------------------------------------------------------------------------
(* Properties of the hook useVerticalData (HookSpec)                       *)

\* what the hook returns to the component
Shown(h) == <<h.config, h.data, h.analysis, h.error, h.loading>>

\* C40: when fetchVertical has been invoked again while an earlier
\* invocation was awaiting a response or a body, no step of the earlier
\* invocation changes config, data, analysis, error or loading.
C40_StaleInvocationSetsNothing ==
    [][\A i \in DOMAIN hook.calls :
          (hook'.calls[i] # hook.calls[i] /\ i < hook.fetchRef)
          => Shown(hook') = Shown(hook)]_vars

====
